---- MODULE Spec2Model ----
(***************************************************************************)
(* A model of the OAuth backend of src/oauth_backend_nodejs.js: the SQLite *)
(* credential store (db.js), the credential-exposure route                 *)
(* (routes/credentials.js) and the start/callback routes of the five       *)
(* providers (routes/meta.js, youtube.js, x.js, pinterest.js,              *)
(* linkedin.js).                                                           *)
(*                                                                         *)
(* JavaScript strings that the code inspects (the state parameter, the     *)
(* user id, the Authorization header) are sequences of one-character       *)
(* strings, so that encoding, decoding and parsing are computed.  Opaque   *)
(* values (tokens, provider ids, codes) are TLA+ strings.  An optional     *)
(* value (undefined/null or a value) is a set with at most one element.    *)
(***************************************************************************)
EXTENDS Integers, Sequences, FiniteSets, TLC

VARIABLES
    db,      \* the social_accounts table: [rows, seq] (seq = AUTOINCREMENT counter)
    now,     \* the clock, in epoch seconds (Date.now()/1000, strftime('%s','now'))
    alive,   \* FALSE once the node process has died of an unhandled rejection
    req,     \* req[r]: the request handled in slot r, its locals and its response
    world,   \* what clients may send and providers may answer (never changes)
    pure     \* input/result of the pure-function and store-level specifications

vars == <<db, now, alive, req, world, pure>>

-----------------------------------------------------------------------------
(* Bounds of the model.                                                    *)

\* Largest value of the clock.
MaxTime == 1
\* Longest user identifier explored by the state round trip.
MaxIdLen == 2

-----------------------------------------------------------------------------
(* Strings.                                                                *)

\* The property name written by JSON.stringify({ user_id }).
USER_ID_KEY == <<"u", "s", "e", "r", "_", "i", "d">>
\* The fallback user of the callbacks.
UNKNOWN == <<"u", "n", "k", "n", "o", "w", "n">>
\* The literal removed from the Authorization header.
BEARER == <<"B", "e", "a", "r", "e", "r", " ">>
\* The four letters of the JSON literal null.
NULL_LITERAL == <<"n", "u", "l", "l">>

Opt(S) == {{}} \cup {{x} : x \in S}
The(o) == CHOOSE x \in o : TRUE

\* All sequences over S of length 1..n.
RECURSIVE SeqsUpTo(_, _)
SeqsUpTo(S, n) ==
    IF n = 0 THEN {}
    ELSE LET shorter == SeqsUpTo(S, n - 1)
         IN  {<<c>> : c \in S} \cup shorter
               \cup {Append(s, c) : s \in shorter, c \in S}

\* s starts with p at position i (1-based).
MatchesAt(s, p, i) ==
    /\ i + Len(p) - 1 <= Len(s)
    /\ \A k \in 1..Len(p) : s[i + k - 1] = p[k]

\* String.prototype.replace(pattern, '') with a string pattern: removes the
\* first occurrence of the pattern, wherever it is; no occurrence, no change.
ReplaceFirst(s, p) ==
    LET hits == {i \in 1..Len(s) : MatchesAt(s, p, i)}
    IN  IF hits = {} THEN s
        ELSE LET i == CHOOSE j \in hits : \A k \in hits : j <= k
             IN  SubSeq(s, 1, i - 1) \o SubSeq(s, i + Len(p), Len(s))

-----------------------------------------------------------------------------
(* The state codec: encodeURIComponent(JSON.stringify({ user_id })) at     *)
(* start, JSON.parse(decodeURIComponent(state)) at callback.               *)

Digits == {"0", "1", "2", "3", "4", "5", "6", "7", "8", "9"}
HexDigits == Digits \cup {"A", "B", "C", "D", "E", "F"}
                    \cup {"a", "b", "c", "d", "e", "f"}
LowerCase == {"a", "b", "c", "d", "e", "f", "i", "k", "l", "n", "o", "r",
              "s", "u", "w", "x"}
\* The characters encodeURIComponent leaves alone: A-Z a-z 0-9 - _ . ! ~ * ' ( )
Unreserved == Digits \cup LowerCase \cup {"A", "B", "C", "D", "E", "F"}
                     \cup {"-", "_", ".", "!", "~", "*", "'", "(", ")"}
\* The marks that query-string's strict encoding escapes as well.
StrictMarks == {"!", "'", "(", ")", "*"}

\* The two hexadecimal digits of the escaped characters' code.
PctCode(c) ==
    CASE c = " "  -> <<"2", "0">>
      [] c = "!"  -> <<"2", "1">>
      [] c = "\"" -> <<"2", "2">>
      [] c = "%"  -> <<"2", "5">>
      [] c = "'"  -> <<"2", "7">>
      [] c = "("  -> <<"2", "8">>
      [] c = ")"  -> <<"2", "9">>
      [] c = "*"  -> <<"2", "A">>
      [] c = ","  -> <<"2", "C">>
      [] c = ":"  -> <<"3", "A">>
      [] c = "\\" -> <<"5", "C">>
      [] c = "{"  -> <<"7", "B">>
      [] c = "}"  -> <<"7", "D">>
Escaped == {" ", "!", "\"", "%", "'", "(", ")", "*", ",", ":", "\\", "{", "}"}

UpperHex(h) ==
    CASE h = "a" -> "A" [] h = "b" -> "B" [] h = "c" -> "C"
      [] h = "d" -> "D" [] h = "e" -> "E" [] h = "f" -> "F"
      [] OTHER -> h

RECURSIVE encodeURIComponent(_)
encodeURIComponent(s) ==
    IF s = <<>> THEN <<>>
    ELSE (IF Head(s) \in Unreserved THEN <<Head(s)>>
          ELSE <<"%">> \o PctCode(Head(s)))
         \o encodeURIComponent(Tail(s))

\* query-string's stringify encodes a value with strict-uri-encode:
\* encodeURIComponent, then ! ' ( ) * escaped too.
RECURSIVE strictUriEncode(_)
strictUriEncode(s) ==
    IF s = <<>> THEN <<>>
    ELSE (IF Head(s) \in Unreserved \ StrictMarks THEN <<Head(s)>>
          ELSE <<"%">> \o PctCode(Head(s)))
         \o strictUriEncode(Tail(s))

\* decodeURIComponent: [ok, v].  ok = FALSE is the URIError it throws on a %
\* that two hexadecimal digits do not follow, or on a byte that is no
\* character by itself (80..FF; multi-byte sequences are outside the
\* alphabet).  An escaped character outside the alphabet decodes to "?".
RECURSIVE decodeURIComponent(_)
decodeURIComponent(s) ==
    IF s = <<>> THEN [ok |-> TRUE, v |-> <<>>]
    ELSE IF Head(s) # "%" THEN
        LET rest == decodeURIComponent(Tail(s))
        IN  [ok |-> rest.ok, v |-> <<Head(s)>> \o rest.v]
    ELSE IF Len(s) < 3 \/ s[2] \notin HexDigits \/ s[3] \notin HexDigits THEN
        [ok |-> FALSE, v |-> <<>>]
    ELSE IF s[2] \notin {"0", "1", "2", "3", "4", "5", "6", "7"} THEN
        [ok |-> FALSE, v |-> <<>>]
    ELSE
        LET code == <<s[2], UpperHex(s[3])>>
            known == {c \in Escaped : PctCode(c) = code}
            ch == IF known = {} THEN "?" ELSE The(known)
            rest == decodeURIComponent(SubSeq(s, 4, Len(s)))
        IN  [ok |-> rest.ok, v |-> <<ch>> \o rest.v]

\* JSON.stringify of a string: quoted, with " and \ escaped.
RECURSIVE JSONescape(_)
JSONescape(s) ==
    IF s = <<>> THEN <<>>
    ELSE (IF Head(s) \in {"\"", "\\"} THEN <<"\\", Head(s)>> ELSE <<Head(s)>>)
         \o JSONescape(Tail(s))

JSONstringifyString(s) == <<"\"">> \o JSONescape(s) \o <<"\"">>

\* JSON.stringify({ user_id }) for a string user_id.
JSONstringifyState(user_id) ==
    <<"{">> \o JSONstringifyString(USER_ID_KEY) \o <<":">>
            \o JSONstringifyString(user_id) \o <<"}">>


\* A parsed JSON value, as far as the code reads it: a string, null, or an
\* object, of which only the user_id member is kept (the last one wins).
JString(s) == [t |-> "string", s |-> s, user_id |-> {}]
JNull == [t |-> "null", s |-> <<>>, user_id |-> {}]
JObject(uid) == [t |-> "object", s |-> <<>>, user_id |-> uid]
ParseFail == [ok |-> FALSE, v |-> JNull, next |-> 0]

RECURSIVE SkipWs(_, _)
SkipWs(s, i) ==
    IF i <= Len(s) /\ s[i] = " " THEN SkipWs(s, i + 1) ELSE i

\* The characters of a JSON string from position i to its closing quote.
\* \" \\ \/ stand for the character, \b \f \n \r \t and \uXXXX for a
\* character outside the alphabet ("?"); any other escape is a SyntaxError.
RECURSIVE ParseChars(_, _, _)
ParseChars(s, i, acc) ==
    IF i > Len(s) THEN ParseFail
    ELSE IF s[i] = "\"" THEN [ok |-> TRUE, v |-> JString(acc), next |-> i + 1]
    ELSE IF s[i] # "\\" THEN ParseChars(s, i + 1, Append(acc, s[i]))
    ELSE IF i + 1 > Len(s) THEN ParseFail
    ELSE IF s[i + 1] \in {"\"", "\\", "/"} THEN
        ParseChars(s, i + 2, Append(acc, s[i + 1]))
    ELSE IF s[i + 1] \in {"b", "f", "n", "r", "t"} THEN
        ParseChars(s, i + 2, Append(acc, "?"))
    ELSE IF /\ s[i + 1] = "u"
            /\ i + 5 <= Len(s)
            /\ \A k \in 2..5 : s[i + k] \in HexDigits THEN
        ParseChars(s, i + 6, Append(acc, "?"))
    ELSE ParseFail

\* JSON.parse on the texts of the alphabet: strings, null and objects whose
\* members are such values.  [ok, v, next]; ok = FALSE is its SyntaxError.
RECURSIVE ParseValue(_, _)
RECURSIVE ParseMembers(_, _, _)
ParseValue(s, i) ==
    IF i > Len(s) THEN ParseFail
    ELSE IF s[i] = "\"" THEN ParseChars(s, i + 1, <<>>)
    ELSE IF s[i] = "n" THEN
        IF MatchesAt(s, NULL_LITERAL, i)
        THEN [ok |-> TRUE, v |-> JNull, next |-> i + 4]
        ELSE ParseFail
    ELSE IF s[i] = "{" THEN
        LET j == SkipWs(s, i + 1)
        IN  IF j <= Len(s) /\ s[j] = "}"
            THEN [ok |-> TRUE, v |-> JObject({}), next |-> j + 1]
            ELSE ParseMembers(s, j, {})
    ELSE ParseFail

ParseMembers(s, i, uid) ==
    IF i > Len(s) \/ s[i] # "\"" THEN ParseFail
    ELSE
        LET key == ParseChars(s, i + 1, <<>>)
            colon == SkipWs(s, key.next)
        IN  IF ~key.ok \/ colon > Len(s) \/ s[colon] # ":" THEN ParseFail
            ELSE
                LET val == ParseValue(s, SkipWs(s, colon + 1))
                    sep == SkipWs(s, val.next)
                    uid2 == IF key.v.s = USER_ID_KEY THEN {val.v} ELSE uid
                IN  IF ~val.ok \/ sep > Len(s) THEN ParseFail
                    ELSE IF s[sep] = "}" THEN
                        [ok |-> TRUE, v |-> JObject(uid2), next |-> sep + 1]
                    ELSE IF s[sep] = "," THEN
                        ParseMembers(s, SkipWs(s, sep + 1), uid2)
                    ELSE ParseFail

JSONparse(s) ==
    LET r == ParseValue(s, SkipWs(s, 1))
    IN  IF r.ok /\ SkipWs(s, r.next) = Len(s) + 1
        THEN [ok |-> TRUE, v |-> r.v]
        ELSE [ok |-> FALSE, v |-> JNull]

\* What a user_id that is an object reads as where a string is expected.
OBJECT_USER == <<"[object Object]">>

\* JavaScript truthiness of a member value: a non-empty string or an object.
Truthy(v) == (v.t = "string" /\ v.s # <<>>) \/ v.t = "object"

\* The first two statements of every callback:
\*   const parsedState = state ? JSON.parse(decodeURIComponent(state)) : {};
\*   const userId = parsedState.user_id || 'unknown';
\* state is an optional string.  threw: decodeURIComponent's URIError,
\* JSON.parse's SyntaxError, or the TypeError of reading user_id of null.
\* user_id: parsedState.user_id when it is truthy, else absent.
ParseState(state) ==
    IF state = {} \/ The(state) = <<>> THEN [threw |-> FALSE, user_id |-> {}]
    ELSE
        LET d == decodeURIComponent(The(state))
            p == JSONparse(d.v)
        IN  IF ~d.ok \/ ~p.ok \/ p.v.t = "null"
            THEN [threw |-> TRUE, user_id |-> {}]
            ELSE IF p.v.user_id = {} \/ ~Truthy(The(p.v.user_id))
            THEN [threw |-> FALSE, user_id |-> {}]
            ELSE LET u == The(p.v.user_id)
                 IN  [threw |-> FALSE,
                      user_id |-> {IF u.t = "string" THEN u.s ELSE OBJECT_USER}]

UserIdOf(parsed) == IF parsed.user_id = {} THEN UNKNOWN ELSE The(parsed.user_id)

\* The state constant of every start handler.
EncodeState(user_id) == encodeURIComponent(JSONstringifyState(user_id))

\* The value of the state parameter in the redirect URL, as
\* queryString.stringify writes it.
StateQueryValue(user_id) == strictUriEncode(EncodeState(user_id))

\* Express's query parser on one value of the URL: + is a space, the rest is
\* decodeURIComponent, and a value that does not decode is kept as it is.
QueryDecode(raw) ==
    LET spaced == [i \in 1..Len(raw) |-> IF raw[i] = "+" THEN " " ELSE raw[i]]
        d == decodeURIComponent(spaced)
    IN  IF d.ok THEN d.v ELSE spaced

-----------------------------------------------------------------------------
(* db.js: the social_accounts table and its helpers.                       *)

Providers == {"meta", "youtube", "x", "pinterest", "linkedin"}
SimpleProviders == Providers \ {"meta"}

\* expires_at values: null, a number, or NaN (a number plus Number(undefined)).
NullExpiry == [k |-> "null", n |-> 0]
NumExpiry(n) == [k |-> "number", n |-> n]
NaNExpiry == [k |-> "NaN", n |-> 0]

\* The column sets of social_accounts that carry a PRIMARY KEY or UNIQUE
\* constraint: CREATE TABLE declares id INTEGER PRIMARY KEY and nothing else.
SocialAccountsUniqueKeys == {<<"id">>}

\* The conflict target of saveAccount's INSERT ... ON CONFLICT(user_id, platform).
UpsertConflictTarget == <<"user_id", "platform">>

EmptyDb == [rows |-> <<>>, seq |-> 0]

\* meta ? JSON.stringify(meta) : null, and its inverse in getAccountsForUser.
MetaJson(meta) == IF meta = {} THEN {} ELSE {[json_of |-> The(meta)]}
MetaOfJson(meta_json) == IF meta_json = {} THEN {} ELSE {The(meta_json).json_of}

\* SQLite stores a NaN bound to a column as NULL.
BoundExpiry(e) == IF e.k = "NaN" THEN NullExpiry ELSE e

NewRow(d, a, t) ==
    [id |-> d.seq + 1, user_id |-> a.userId, platform |-> a.platform,
     platform_user_id |-> a.platformUserId, access_token |-> a.accessToken,
     refresh_token |-> a.refreshToken, meta_json |-> MetaJson(a.meta),
     expires_at |-> BoundExpiry(a.expiresAt), created_at |-> t]

\* The statement of saveAccount with its ON CONFLICT clause dropped: a plain
\* INSERT, which always adds a row.
saveAccountPlainInsert(d, a, t) ==
    [threw |-> FALSE,
     db |-> [rows |-> Append(d.rows, NewRow(d, a, t)), seq |-> d.seq + 1]]

\* A plain INSERT into a table whose UNIQUE constraint is on access_token:
\* the statement throws for a token the table already holds.
saveAccountUniqueToken(d, a, t) ==
    IF \E i \in DOMAIN d.rows : d.rows[i].access_token = a.accessToken
    THEN [threw |-> TRUE, db |-> d]
    ELSE [threw |-> FALSE,
          db |-> [rows |-> Append(d.rows, NewRow(d, a, t)), seq |-> d.seq + 1]]

\* The five mutable columns of row set from record a.
RowUpdated(row, a) ==
    [row EXCEPT !.platform_user_id = a.platformUserId,
                !.access_token = a.accessToken,
                !.refresh_token = a.refreshToken,
                !.meta_json = MetaJson(a.meta),
                !.expires_at = BoundExpiry(a.expiresAt)]

\* The statement of saveAccount on a table that declares
\* UNIQUE(user_id, platform): the statement compiles, and inserts a row or
\* updates the row of the pair.
saveAccountWithUniquePair(d, a, t) ==
    LET hit == {i \in DOMAIN d.rows :
                  /\ d.rows[i].user_id = a.userId
                  /\ d.rows[i].platform = a.platform}
    IN  IF hit = {}
        THEN [threw |-> FALSE,
              db |-> [rows |-> Append(d.rows, NewRow(d, a, t)),
                      seq |-> d.seq + 1]]
        ELSE [threw |-> FALSE,
              db |-> [d EXCEPT !.rows =
                  [i \in DOMAIN d.rows |->
                      IF i \in hit THEN RowUpdated(d.rows[i], a)
                      ELSE d.rows[i]]]]

\* An upsert whose conflict target, and the table's UNIQUE constraint, is
\* platform alone: a row of the platform is updated whoever its user is.
saveAccountKeyedOnPlatform(d, a, t) ==
    LET hit == {i \in DOMAIN d.rows : d.rows[i].platform = a.platform}
    IN  IF hit = {}
        THEN [threw |-> FALSE,
              db |-> [rows |-> Append(d.rows, NewRow(d, a, t)),
                      seq |-> d.seq + 1]]
        ELSE [threw |-> FALSE,
              db |-> [d EXCEPT !.rows =
                  [i \in DOMAIN d.rows |->
                      IF i \in hit THEN RowUpdated(d.rows[i], a)
                      ELSE d.rows[i]]]]

\* An upsert written as delete-then-insert whose DELETE names the user only:
\* DELETE FROM social_accounts WHERE user_id = ?, then a plain INSERT.
saveAccountReplacingUser(d, a, t) ==
    LET kept == SelectSeq(d.rows, LAMBDA row : row.user_id # a.userId)
    IN  [threw |-> FALSE,
         db |-> [rows |-> Append(kept, NewRow(d, a, t)), seq |-> d.seq + 1]]

\* saveAccount(a) at time t on table d: [threw, db].  db.prepare compiles the
\* statement first, and SQLite rejects an ON CONFLICT target that matches no
\* PRIMARY KEY or UNIQUE constraint of the table ("ON CONFLICT clause does
\* not match any PRIMARY KEY or UNIQUE constraint"): prepare throws and
\* nothing is written.  With a matching constraint the statement inserts a
\* row, or updates the five mutable columns of the row of (user_id, platform).
saveAccount(d, a, t) ==
    IF UpsertConflictTarget \notin SocialAccountsUniqueKeys
    THEN [threw |-> TRUE, db |-> d]
    ELSE
        LET hit == {i \in DOMAIN d.rows :
                      /\ d.rows[i].user_id = a.userId
                      /\ d.rows[i].platform = a.platform}
        IN  IF hit = {}
            THEN [threw |-> FALSE,
                  db |-> [rows |-> Append(d.rows, NewRow(d, a, t)),
                          seq |-> d.seq + 1]]
            ELSE [threw |-> FALSE,
                  db |-> [d EXCEPT !.rows =
                      [i \in DOMAIN d.rows |->
                          IF i \in hit
                          THEN [d.rows[i] EXCEPT
                                  !.platform_user_id = a.platformUserId,
                                  !.access_token = a.accessToken,
                                  !.refresh_token = a.refreshToken,
                                  !.meta_json = MetaJson(a.meta),
                                  !.expires_at = BoundExpiry(a.expiresAt)]
                          ELSE d.rows[i]]]]

\* DELETE FROM social_accounts WHERE user_id = ? AND platform = ?.  Exported
\* by db.js; no route calls it.
deleteAccount(d, userId, platform) ==
    [d EXCEPT !.rows =
        SelectSeq(d.rows, LAMBDA row :
            ~(row.user_id = userId /\ row.platform = platform))]

\* SELECT * FROM social_accounts WHERE user_id = ?, each row with its meta parsed.
getAccountsForUser(d, userId) ==
    LET mine == SelectSeq(d.rows, LAMBDA row : row.user_id = userId)
    IN  [i \in DOMAIN mine |->
            [id |-> mine[i].id, user_id |-> mine[i].user_id,
             platform |-> mine[i].platform,
             platform_user_id |-> mine[i].platform_user_id,
             access_token |-> mine[i].access_token,
             refresh_token |-> mine[i].refresh_token,
             meta |-> MetaOfJson(mine[i].meta_json),
             expires_at |-> mine[i].expires_at,
             created_at |-> mine[i].created_at]]

-----------------------------------------------------------------------------
(* routes/credentials.js                                                   *)

\* process.env.SERVICE_TOKEN, as configured.
SERVICE_TOKEN == <<"s", "k">>

\* req.get('Authorization')?.replace('Bearer ', ''), for an optional header.
ServiceTokenOf(authorization) ==
    IF authorization = {} THEN {}
    ELSE {ReplaceFirst(The(authorization), BEARER)}

\* The negation of the guard of the 401:
\*   !serviceToken || serviceToken !== process.env.SERVICE_TOKEN
Authorized(authorization) ==
    LET serviceToken == ServiceTokenOf(authorization)
    IN  ~(\/ serviceToken = {}
          \/ The(serviceToken) = <<>>
          \/ The(serviceToken) # SERVICE_TOKEN)

Platforms == {"facebook", "instagram", "youtube", "x", "pinterest", "linkedin"}

\* The loop that fills tokens, had it an entry for every platform, with null
\* fields where the user has no account.
TokensOfEveryPlatform(accounts) ==
    [p \in Platforms |->
        LET mine == {i \in DOMAIN accounts : accounts[i].platform = p}
        IN  IF mine = {}
            THEN [access_token |-> "", refresh_token |-> {},
                  platform_user_id |-> {}, meta |-> {}]
            ELSE LET last == CHOOSE i \in mine : \A j \in mine : j <= i
                 IN  [access_token |-> accounts[last].access_token,
                      refresh_token |-> accounts[last].refresh_token,
                      platform_user_id |-> accounts[last].platform_user_id,
                      meta |-> accounts[last].meta]]

\* The loop that fills tokens: one entry per platform among the accounts, a
\* later account of the same platform overwriting an earlier one.
TokensOf(accounts) ==
    [p \in {accounts[i].platform : i \in DOMAIN accounts} |->
        LET last == CHOOSE i \in DOMAIN accounts :
                      /\ accounts[i].platform = p
                      /\ \A j \in DOMAIN accounts :
                            accounts[j].platform = p => j <= i
        IN  [access_token |-> accounts[last].access_token,
             refresh_token |-> accounts[last].refresh_token,
             platform_user_id |-> accounts[last].platform_user_id,
             meta |-> accounts[last].meta]]

-----------------------------------------------------------------------------
(* Requests.  A slot holds one request from its arrival to the moment the  *)
(* client is done with it; a handler runs without interruption between two *)
(* awaits, so each action is the code from one await to the next.          *)

Reqs == {1}
ConcurrentReqs == {1, 2}

\* The inputs the requests are drawn from.
Users == {<<"a">>, <<"\"", "%">>}
StartUserIds == {{}, {<<>>}} \cup {{u} : u \in Users}
Codes == Opt({"c1"})
\* Values of req.query.state: the well-formed states, {"user_id":""}, a lone
\* %, text that is no JSON, the JSON null, and the JSON {}.
StateValues ==
    {EncodeState(u) : u \in Users}
      \cup {EncodeState(<<>>), <<"%">>, <<"a">>, NULL_LITERAL,
            encodeURIComponent(<<"{", "}">>)}
\* The state parameter as it stands in the callback URL, or absent.
RawStates == {{}} \cup {{strictUriEncode(v)} : v \in StateValues}
PathUsers == Users \cup {UNKNOWN}
AuthHeaders ==
    {{}, {SERVICE_TOKEN}, {BEARER \o SERVICE_TOKEN}, {BEARER},
     {BEARER \o <<"x">>}, {<<"s">> \o BEARER \o <<"k">>}}

\* What the providers may answer.
Tokens == {"t1", "t2"}
RefreshTokens == Opt({"r1"})
ExpiresIns == Opt({5})
ProviderIds == Opt({"id1"})
ErrorDetails == {"e1", "e2"}
Page1 == [id |-> "pg1", access_token |-> "pt1", name |-> "n1"]
Page2 == [id |-> "pg2", access_token |-> "pt2", name |-> "n2"]
PageLists == {<<>>, <<Page1>>, <<Page2, Page1>>}
InstagramAccounts == Opt({"IG123"})

NoInput ==
    [user_id |-> {}, code |-> {}, state |-> {}, rawState |-> {},
     authorization |-> {}, path |-> <<>>]
NoLocals ==
    [access_token |-> "", refresh_token |-> {}, expires_in |-> {},
     exchangedAt |-> {}, longToken |-> "", expiresAt |-> NullExpiry,
     page |-> {}, instagramUserId |-> {}]
Idle ==
    [kind |-> "idle", provider |-> "-", pc |-> "idle", in |-> NoInput,
     parsedUserId |-> {}, userId |-> <<>>, loc |-> NoLocals,
     calls |-> <<>>, handed |-> <<>>, writes |-> <<>>, logged |-> {},
     status |-> 0, body |-> [none |-> TRUE], snap |-> EmptyDb,
     overlapped |-> FALSE]

Respond(q, status, body) ==
    [q EXCEPT !.pc = "done", !.status = status, !.body = body]

\* The catch block of a callback: the detail goes to console.error, the
\* response is a 500 with the handler's fixed text.
ErrorText(p) ==
    CASE p = "meta" -> "Error during Facebook OAuth"
      [] p = "youtube" -> "Error handling YouTube OAuth"
      [] p = "x" -> "Error with X OAuth"
      [] p = "pinterest" -> "Pinterest OAuth Error"
      [] p = "linkedin" -> "LinkedIn OAuth Error"

Catch(q, detail) ==
    [Respond(q, 500, [text |-> ErrorText(q.provider)]) EXCEPT !.logged = {detail}]

NoCodeText(p) ==
    IF p \in {"meta", "youtube"} THEN "No code provided" ELSE "No code"

SuccessText(p) ==
    CASE p = "meta" -> "Connected successfully!"
      [] p = "youtube" -> "YouTube connected!"
      [] p = "x" -> "X connected!"
      [] p = "pinterest" -> "Pinterest connected!"
      [] p = "linkedin" -> "LinkedIn connected!"

AuthorizationUrl(p) ==
    CASE p = "meta" -> "https://www.facebook.com/v17.0/dialog/oauth"
      [] p = "youtube" -> "https://accounts.google.com/o/oauth2/v2/auth"
      [] p = "x" -> "https://twitter.com/i/oauth2/authorize"
      [] p = "pinterest" -> "https://www.pinterest.com/oauth/"
      [] p = "linkedin" -> "https://www.linkedin.com/oauth/v2/authorization"

\* Every request, every answer.
FullWorld ==
    [providers |-> Providers, startUserIds |-> StartUserIds, codes |-> Codes,
     rawStates |-> RawStates, pathUsers |-> PathUsers,
     authHeaders |-> AuthHeaders, tokens |-> Tokens,
     refreshTokens |-> RefreshTokens, expiresIns |-> ExpiresIns,
     providerIds |-> ProviderIds, errorDetails |-> ErrorDetails,
     pageLists |-> PageLists, instagramAccounts |-> InstagramAccounts]

Init ==
    /\ db = EmptyDb
    /\ now = 0
    /\ alive = TRUE
    /\ req = [r \in Reqs |-> Idle]
    /\ world = FullWorld
    /\ pure = <<>>

\* Time passes.
Tick ==
    /\ alive
    /\ now < MaxTime
    /\ now' = now + 1
    /\ UNCHANGED <<db, alive, req, world, pure>>

\* The client is done with a request that was answered, or gives up on one
\* that never will be.
Close(r) ==
    /\ alive
    /\ req[r].pc \in {"done", "rejected"}
    /\ req' = [req EXCEPT ![r] = Idle]
    /\ UNCHANGED <<db, now, alive, world, pure>>

\* A start handler whose guard were user_id === undefined: an empty user_id
\* is redirected.
StartResponseMissingOnly(q) ==
    IF q.in.user_id = {}
    THEN Respond(q, 400, [text |-> "Missing user_id"])
    ELSE Respond(q, 302,
                 [location |-> AuthorizationUrl(q.provider),
                  state |-> StateQueryValue(The(q.in.user_id))])

\* GET /auth/<provider>/start: the five handlers differ in the URL only.
StartResponse(q) ==
    IF q.in.user_id = {} \/ The(q.in.user_id) = <<>>
    THEN Respond(q, 400, [text |-> "Missing user_id"])
    ELSE Respond(q, 302,
                 [location |-> AuthorizationUrl(q.provider),
                  state |-> StateQueryValue(The(q.in.user_id))])

Start(r, p, user_id) ==
    /\ alive
    /\ p \in world.providers /\ user_id \in world.startUserIds
    /\ req[r].pc = "idle"
    /\ req' = [req EXCEPT ![r] =
                 StartResponse([Idle EXCEPT !.kind = "start", !.provider = p,
                                            !.in.user_id = user_id,
                                            !.snap = db])]
    /\ UNCHANGED <<db, now, alive, world, pure>>

\* GET /v1/users/:userId/credentials
CredentialsResponse(q, d) ==
    IF ~Authorized(q.in.authorization)
    THEN Respond(q, 401, [error |-> "Unauthorized"])
    ELSE Respond(q, 200,
                 [userId |-> q.in.path,
                  tokens |-> TokensOf(getAccountsForUser(d, q.in.path))])

Credentials(r, userId, authorization) ==
    /\ alive
    /\ userId \in world.pathUsers /\ authorization \in world.authHeaders
    /\ req[r].pc = "idle"
    /\ req' = [req EXCEPT ![r] =
                 CredentialsResponse(
                     [Idle EXCEPT !.kind = "credentials", !.in.path = userId,
                                  !.in.authorization = authorization,
                                  !.snap = db], db)]
    /\ UNCHANGED <<db, now, alive, world, pure>>

-----------------------------------------------------------------------------
(* The callbacks.                                                          *)

NewCallback(p, code, raw, d) ==
    [Idle EXCEPT !.kind = "callback", !.provider = p, !.in.code = code,
                 !.in.rawState = raw,
                 !.in.state = IF raw = {} THEN {} ELSE {QueryDecode(The(raw))},
                 !.snap = d]

\* Another callback is suspended at an await while slot r begins: the two
\* handlers run interleaved from here on.
Overlaps(r) ==
    \E o \in DOMAIN req \ {r} :
        req[o].kind = "callback" /\ req[o].pc \notin {"done", "rejected"}

WithUser(q, parsed) ==
    [q EXCEPT !.parsedUserId = parsed.user_id, !.userId = UserIdOf(parsed)]

Await(q, call) == [q EXCEPT !.pc = call, !.calls = Append(q.calls, call)]

\* GET /auth/meta/callback up to its first await.  The whole handler is in
\* the try block, the decoding of the state included.
MetaCallbackBegin(q) ==
    LET parsed == ParseState(q.in.state)
    IN  IF parsed.threw THEN Catch(q, "state")
        ELSE IF q.in.code = {}
        THEN Respond(WithUser(q, parsed), 200, [text |-> NoCodeText("meta")])
        ELSE Await(WithUser(q, parsed), "token")

\* The callbacks of youtube, x, pinterest and linkedin up to their first
\* await.  The decoding of the state stands before the try block: what it
\* throws rejects the promise of the async handler, which Express 4 does not
\* observe, so no response is ever sent.
SimpleCallbackBegin(q) ==
    LET parsed == ParseState(q.in.state)
    IN  IF parsed.threw THEN [q EXCEPT !.pc = "rejected"]
        ELSE IF q.in.code = {}
        THEN Respond(WithUser(q, parsed), 200, [text |-> NoCodeText(q.provider)])
        ELSE Await(WithUser(q, parsed), "token")

MetaCallback(r, code, raw) ==
    /\ alive
    /\ "meta" \in world.providers
    /\ code \in world.codes /\ raw \in world.rawStates
    /\ req[r].pc = "idle"
    /\ req' = [req EXCEPT ![r] =
                 MetaCallbackBegin([NewCallback("meta", code, raw, db)
                                       EXCEPT !.overlapped = Overlaps(r)])]
    /\ UNCHANGED <<db, now, alive, world, pure>>

\* An unhandled rejection ends the node process, or only warns, with the
\* version and flags of node.
SimpleCallback(r, p, code, raw) ==
    /\ alive
    /\ p \in world.providers /\ code \in world.codes /\ raw \in world.rawStates
    /\ req[r].pc = "idle"
    /\ req' = [req EXCEPT ![r] =
                 SimpleCallbackBegin([NewCallback(p, code, raw, db)
                                         EXCEPT !.overlapped = Overlaps(r)])]
    /\ IF req'[r].pc = "rejected" THEN alive' \in BOOLEAN ELSE alive' = alive
    /\ UNCHANGED <<db, now, world, pure>>

YoutubeCallback(r, code, raw) == SimpleCallback(r, "youtube", code, raw)
XCallback(r, code, raw) == SimpleCallback(r, "x", code, raw)
PinterestCallback(r, code, raw) == SimpleCallback(r, "pinterest", code, raw)
LinkedinCallback(r, code, raw) == SimpleCallback(r, "linkedin", code, raw)

\* The saveAccount calls of a handler, in order, up to the first that
\* throws: handed are the records given to saveAccount, written those of
\* the calls that returned.
RECURSIVE SaveAll(_, _, _)
SaveAll(d, calls, t) ==
    IF calls = <<>>
    THEN [threw |-> FALSE, db |-> d, handed |-> <<>>, written |-> <<>>]
    ELSE LET first == saveAccount(d, Head(calls), t)
         IN  IF first.threw
             THEN [threw |-> TRUE, db |-> first.db,
                   handed |-> <<Head(calls)>>, written |-> <<>>]
             ELSE LET rest == SaveAll(first.db, Tail(calls), t)
                  IN  [threw |-> rest.threw, db |-> rest.db,
                       handed |-> <<Head(calls)>> \o rest.handed,
                       written |-> <<Head(calls)>> \o rest.written]

\* The end of a callback: its saveAccount calls, then res.send, or the catch
\* block if a saveAccount throws.
Persist(r, q, calls, body) ==
    LET res == SaveAll(db, calls, now)
        saved == [q EXCEPT !.handed = res.handed, !.writes = res.written]
    IN  /\ db' = res.db
        /\ req' = [req EXCEPT ![r] =
                     IF res.threw THEN Catch(saved, "SqliteError")
                     ELSE Respond(saved, 200, body)]

Awaiting(r, providers, call) ==
    /\ alive
    /\ req[r].kind = "callback"
    /\ req[r].provider \in providers
    /\ req[r].pc = call

\* A handler that retries: the failed provider call is issued once more.
FailedRetrying(r) ==
    /\ req' = [req EXCEPT ![r] = Await(req[r], req[r].pc)]
    /\ UNCHANGED db

\* The provider call failed or timed out: axios throws into the catch block.
Failed(r) ==
    /\ \E e \in world.errorDetails : req' = [req EXCEPT ![r] = Catch(req[r], e)]
    /\ UNCHANGED db

\* Math.floor(Date.now()/1000) + Number(expires_in)
ExpiryFrom(t, expires_in) ==
    IF expires_in = {} THEN NaNExpiry ELSE NumExpiry(t + The(expires_in))

\* meta.js: the code exchange answered.
MetaTokenReply(r) ==
    /\ Awaiting(r, {"meta"}, "token")
    /\ \/ Failed(r)
       \/ /\ req' = [req EXCEPT ![r] =
                       Await([req[r] EXCEPT !.loc.access_token = "short1"], "long")]
          /\ UNCHANGED db
    /\ UNCHANGED <<now, alive, world, pure>>

\* meta.js: the long-lived exchange answered.
MetaLongReply(r) ==
    /\ Awaiting(r, {"meta"}, "long")
    /\ \/ Failed(r)
       \/ /\ \E longToken \in world.tokens, expires_in \in world.expiresIns :
                req' = [req EXCEPT ![r] =
                    Await([req[r] EXCEPT
                             !.loc.longToken = longToken,
                             !.loc.expires_in = expires_in,
                             !.loc.exchangedAt = {now},
                             !.loc.expiresAt =
                                 IF expires_in = {} THEN NullExpiry
                                 ELSE NumExpiry(now + The(expires_in))],
                          "pages")]
          /\ UNCHANGED db
    /\ UNCHANGED <<now, alive, world, pure>>

FacebookNoPages(q) ==
    [userId |-> q.userId, platform |-> "facebook",
     platformUserId |-> q.parsedUserId, accessToken |-> q.loc.longToken,
     refreshToken |-> {}, meta |-> {[note |-> "no-pages"]},
     expiresAt |-> q.loc.expiresAt]

\* meta.js: the page list answered.
MetaPagesReply(r) ==
    /\ Awaiting(r, {"meta"}, "pages")
    /\ \/ Failed(r)
       \/ \E pages \in world.pageLists :
            IF Len(pages) = 0
            THEN Persist(r, req[r], <<FacebookNoPages(req[r])>>,
                         [text |-> "Connected to Facebook but no pages found."])
            ELSE /\ req' = [req EXCEPT ![r] =
                              Await([req[r] EXCEPT !.loc.page = {pages[1]}], "page")]
                 /\ UNCHANGED db
    /\ UNCHANGED <<now, alive, world, pure>>

FacebookPage(q) ==
    LET page == The(q.loc.page)
    IN  [userId |-> q.userId, platform |-> "facebook",
         platformUserId |-> {page.id}, accessToken |-> page.access_token,
         refreshToken |-> {}, meta |-> {[page_name |-> page.name]},
         expiresAt |-> NullExpiry]

InstagramOfPage(q, instagramUserId) ==
    LET page == The(q.loc.page)
    IN  [userId |-> q.userId, platform |-> "instagram",
         platformUserId |-> {instagramUserId}, accessToken |-> page.access_token,
         refreshToken |-> {}, meta |-> {[linked_page |-> page.id]},
         expiresAt |-> NullExpiry]

\* meta.js: the lookup of the page's connected Instagram account answered.
MetaPageInfoReply(r) ==
    /\ Awaiting(r, {"meta"}, "page")
    /\ \/ Failed(r)
       \/ \E instagramAccount \in world.instagramAccounts :
            Persist(r,
                    [req[r] EXCEPT !.loc.instagramUserId = instagramAccount],
                    <<FacebookPage(req[r])>> \o
                      (IF instagramAccount = {} THEN <<>>
                       ELSE <<InstagramOfPage(req[r], The(instagramAccount))>>),
                    [text |-> SuccessText("meta"), user |-> req[r].userId,
                     instagram |-> instagramAccount])
    /\ UNCHANGED <<now, alive, world, pure>>

\* youtube.js, x.js, pinterest.js, linkedin.js: the token exchange answered.
\* linkedin.js reads no refresh_token from the answer.
SimpleTokenReply(r) ==
    /\ Awaiting(r, SimpleProviders, "token")
    /\ \/ Failed(r)
       \/ /\ \E access_token \in world.tokens,
                refresh_token \in world.refreshTokens,
                expires_in \in world.expiresIns :
                req' = [req EXCEPT ![r] =
                    Await([req[r] EXCEPT
                             !.loc.access_token = access_token,
                             !.loc.refresh_token =
                                 IF req[r].provider = "linkedin" THEN {}
                                 ELSE refresh_token,
                             !.loc.expires_in = expires_in,
                             !.loc.exchangedAt = {now}],
                          "me")]
          /\ UNCHANGED db
    /\ UNCHANGED <<now, alive, world, pure>>

\* The record of the four one-record callbacks: meta is { snippet } for
\* youtube, null for x, and the resolved account payload for the others.
SimpleAccount(q, id) ==
    [userId |-> q.userId, platform |-> q.provider, platformUserId |-> id,
     accessToken |-> q.loc.access_token, refreshToken |-> q.loc.refresh_token,
     meta |-> IF q.provider = "x" THEN {} ELSE {[payload_of |-> id]},
     expiresAt |-> ExpiryFrom(now, q.loc.expires_in)]

\* youtube.js, x.js, pinterest.js, linkedin.js: the identity lookup answered.
SimpleMeReply(r) ==
    /\ Awaiting(r, SimpleProviders, "me")
    /\ \/ Failed(r)
       \/ \E id \in world.providerIds :
            Persist(r, req[r], <<SimpleAccount(req[r], id)>>,
                    [text |-> SuccessText(req[r].provider), id |-> id])
    /\ UNCHANGED <<now, alive, world, pure>>

\* The steps of slot r.
Handle(r) ==
    \/ Close(r)
    \/ \E p \in Providers, user_id \in StartUserIds : Start(r, p, user_id)
    \/ \E u \in PathUsers, a \in AuthHeaders : Credentials(r, u, a)
    \/ \E code \in Codes, raw \in RawStates :
        \/ MetaCallback(r, code, raw)
        \/ YoutubeCallback(r, code, raw)
        \/ XCallback(r, code, raw)
        \/ PinterestCallback(r, code, raw)
        \/ LinkedinCallback(r, code, raw)
    \/ MetaTokenReply(r)
    \/ MetaLongReply(r)
    \/ MetaPagesReply(r)
    \/ MetaPageInfoReply(r)
    \/ SimpleTokenReply(r)
    \/ SimpleMeReply(r)

Next == Tick \/ \E r \in Reqs : Handle(r)

Spec == Init /\ [][Next]_vars

-----------------------------------------------------------------------------
(* Two requests in flight at once, over fewer inputs and answers.          *)

User1 == <<"a">>

SmallWorld ==
    [providers |-> Providers, startUserIds |-> {{}, {User1}}, codes |-> Codes,
     rawStates |-> {{}, {StateQueryValue(User1)}}, pathUsers |-> {User1},
     authHeaders |-> {{}, {BEARER \o SERVICE_TOKEN}}, tokens |-> Tokens,
     refreshTokens |-> {{"r1"}}, expiresIns |-> {{5}},
     providerIds |-> {{"id1"}}, errorDetails |-> {"e1"},
     pageLists |-> {<<>>, <<Page1>>}, instagramAccounts |-> InstagramAccounts]

ConcurrentInit ==
    /\ db = EmptyDb
    /\ now = 0
    /\ alive = TRUE
    /\ req = [r \in ConcurrentReqs |-> Idle]
    /\ world = SmallWorld
    /\ pure = <<>>

ConcurrentNext == Tick \/ \E r \in ConcurrentReqs : Handle(r)

ConcurrentSpec == ConcurrentInit /\ [][ConcurrentNext]_vars

-----------------------------------------------------------------------------
(* The store by itself: saveAccount twice on one (user_id, platform).      *)

FirstAccounts ==
    {[userId |-> u, platform |-> p, platformUserId |-> {"id1"},
      accessToken |-> t, refreshToken |-> {"r1"}, meta |-> {[note |-> "first"]},
      expiresAt |-> NumExpiry(5)] :
        u \in Users, p \in {"facebook", "youtube"}, t \in Tokens}

SecondAccounts(first) ==
    {[userId |-> first.userId, platform |-> first.platform,
      platformUserId |-> {"id2"}, accessToken |-> t, refreshToken |-> rt,
      meta |-> m, expiresAt |-> e] :
        t \in Tokens \ {first.accessToken}, rt \in RefreshTokens,
        m \in {{}, {[note |-> "second"]}}, e \in {NullExpiry, NumExpiry(7)}}

StoreInit ==
    /\ db = EmptyDb
    /\ now = 0
    /\ alive = TRUE
    /\ req = [r \in Reqs |-> Idle]
    /\ world = FullWorld
    /\ \E first \in FirstAccounts : \E second \in SecondAccounts(first) :
         pure = [first |-> first, second |-> second, step |-> 0,
                 threw |-> <<>>, firstAt |-> {}, firstId |-> {}]

\* The first saveAccount; what it set is remembered.
UpsertFirst ==
    /\ pure.step = 0
    /\ LET res == saveAccount(db, pure.first, now)
       IN  /\ db' = res.db
           /\ pure' = [pure EXCEPT
                 !.step = 1,
                 !.threw = Append(@, res.threw),
                 !.firstAt = {now},
                 !.firstId = {res.db.rows[i].id : i \in DOMAIN res.db.rows}]
    /\ UNCHANGED <<now, alive, req, world>>

\* The second saveAccount, on the same (user_id, platform).
UpsertSecond ==
    /\ pure.step = 1
    /\ LET res == saveAccount(db, pure.second, now)
       IN  /\ db' = res.db
           /\ pure' = [pure EXCEPT !.step = 2, !.threw = Append(@, res.threw)]
    /\ UNCHANGED <<now, alive, req, world>>

StoreNext == Tick \/ UpsertFirst \/ UpsertSecond

StoreSpec == StoreInit /\ [][StoreNext]_vars

-----------------------------------------------------------------------------
(* The state codec by itself: start encodes, the callback decodes.         *)

IdChars == {"a", " ", "\"", "\\", "%", "{"}

CodecInit ==
    /\ db = EmptyDb
    /\ now = 0
    /\ alive = TRUE
    /\ req = [r \in Reqs |-> Idle]
    /\ world = FullWorld
    /\ \E u \in SeqsUpTo(IdChars, MaxIdLen) :
         pure = [user_id |-> u, step |-> "start", url |-> <<>>,
                 parsed |-> [threw |-> FALSE, user_id |-> {}]]

\* start: the state parameter of the redirect URL.
CodecRedirect ==
    /\ pure.step = "start"
    /\ pure' = [pure EXCEPT !.step = "redirected",
                            !.url = StateQueryValue(pure.user_id)]
    /\ UNCHANGED <<db, now, alive, req, world>>

\* callback: Express parses the URL, the handler decodes the state.
CodecCallback ==
    /\ pure.step = "redirected"
    /\ pure' = [pure EXCEPT !.step = "decoded",
                            !.parsed = ParseState({QueryDecode(pure.url)})]
    /\ UNCHANGED <<db, now, alive, req, world>>

CodecNext == CodecRedirect \/ CodecCallback

CodecSpec == CodecInit /\ [][CodecNext]_vars

-----------------------------------------------------------------------------
(* Properties.                                                             *)

\* The (user_id, platform) pairs that have a row in table d.
Pairs(d) == {<<d.rows[i].user_id, d.rows[i].platform>> : i \in DOMAIN d.rows}
RowsOf(d, u, p) ==
    {i \in DOMAIN d.rows : d.rows[i].user_id = u /\ d.rows[i].platform = p}

\* A callback that went through its whole exchange chain and called saveAccount.
ReachedSave(q) ==
    /\ q.kind = "callback"
    /\ q.pc = "done"
    /\ q.calls # <<>>
    /\ q.logged \in {{}, {"SqliteError"}}

\* C1: in every reachable state, whatever the interleaving of start,
\* callback and credential requests, the table holds at most one row per
\* (user_id, platform) pair.
C1_AtMostOneRecordPerPair ==
    \A i, j \in DOMAIN db.rows :
        (/\ db.rows[i].user_id = db.rows[j].user_id
         /\ db.rows[i].platform = db.rows[j].platform) => i = j

\* Two callbacks in flight together, of one provider and for one user, have
\* both called saveAccount.
C1_Witness ==
    /\ C1_AtMostOneRecordPerPair
    /\ \E r1, r2 \in DOMAIN req :
        /\ r1 # r2
        /\ ReachedSave(req[r1]) /\ ReachedSave(req[r2])
        /\ req[r1].provider = req[r2].provider
        /\ req[r1].userId = req[r2].userId
        /\ req[r1].userId = User1


\* C2: after saveAccount was called twice with the same (user_id, platform)
\* and different token values, neither call has thrown and the table holds
\* exactly one row for the pair, with the second call's platform_user_id,
\* access_token, refresh_token, metadata and expires_at and the first call's
\* created_at and id.
C2_UpsertReplaces ==
    pure.step = 2 =>
        /\ pure.threw = <<FALSE, FALSE>>
        /\ \E i \in DOMAIN db.rows :
            /\ RowsOf(db, pure.first.userId, pure.first.platform) = {i}
            /\ db.rows[i].platform_user_id = pure.second.platformUserId
            /\ db.rows[i].access_token = pure.second.accessToken
            /\ db.rows[i].refresh_token = pure.second.refreshToken
            /\ MetaOfJson(db.rows[i].meta_json) = pure.second.meta
            /\ db.rows[i].expires_at = pure.second.expiresAt
            /\ {db.rows[i].created_at} = pure.firstAt
            /\ {db.rows[i].id} = pure.firstId

\* The header presents the configured secret: the secret itself, bare or as
\* a Bearer credential.
PresentsSecret(authorization) ==
    authorization \in {{SERVICE_TOKEN}, {BEARER \o SERVICE_TOKEN}}

Answered(q, kind) == q.kind = kind /\ q.pc = "done"

\* C3: a credentials request whose Authorization header is missing or is not
\* the configured secret is answered 401, and its body holds no stored data.
C3_UnauthorizedUnlessExactSecret ==
    \A r \in DOMAIN req :
        (Answered(req[r], "credentials") /\ ~PresentsSecret(req[r].in.authorization))
            => /\ req[r].status = 401
               /\ "tokens" \notin DOMAIN req[r].body

\* The response entry of a row.
EntryOfRow(row) ==
    [access_token |-> row.access_token, refresh_token |-> row.refresh_token,
     platform_user_id |-> row.platform_user_id,
     meta |-> MetaOfJson(row.meta_json)]

\* C4: a credentials request with the correct secret is answered 200 with a
\* mapping whose keys are exactly the platforms the user has a row for (no
\* key at all when there is none), each entry holding the fields of a row of
\* that user and platform.
C4_ExposureListsStoredPlatforms ==
    \A r \in DOMAIN req :
        (Answered(req[r], "credentials") /\ PresentsSecret(req[r].in.authorization))
            => /\ req[r].status = 200
               /\ req[r].body.userId = req[r].in.path
               /\ DOMAIN req[r].body.tokens =
                    {pair[2] : pair \in {x \in Pairs(req[r].snap) :
                                            x[1] = req[r].in.path}}
               /\ \A p \in DOMAIN req[r].body.tokens :
                    \E i \in RowsOf(req[r].snap, req[r].in.path, p) :
                        req[r].body.tokens[p] = EntryOfRow(req[r].snap.rows[i])

\* An authorized request, sent as a Bearer credential, for a user without
\* rows was answered with the empty mapping.
C4_Witness ==
    \E r \in DOMAIN req :
        /\ Answered(req[r], "credentials")
        /\ req[r].in.authorization = {BEARER \o SERVICE_TOKEN}
        /\ req[r].in.path = User1
        /\ req[r].status = 200
        /\ DOMAIN req[r].body.tokens = {}

\* A request that has been handled to its end, answered or not.
Finished(q, kind) == q.kind = kind /\ q.pc \in {"done", "rejected"}

\* C5: a callback without a code, whatever its state parameter, is answered
\* 200 and has made no provider call and written nothing.
C5_NoCodeIsBenign ==
    \A r \in DOMAIN req :
        (Finished(req[r], "callback") /\ req[r].in.code = {})
            => /\ req[r].status = 200
               /\ req[r].calls = <<>>
               /\ req[r].writes = <<>>
               /\ db = req[r].snap

\* The state parameter is one that start wrote for a user.
WellFormedState(raw) == \E u \in Users : raw = {StateQueryValue(u)}
\* The state parameter is absent, or does not decode to an object with a
\* user_id.
UndecodableState(raw) ==
    ~WellFormedState(raw) /\ raw # {StateQueryValue(<<>>)}

\* C6: a callback whose state is absent or undecodable does not fail on it:
\* it goes on as user "unknown", and when it carries a code and every
\* provider call succeeds it writes its record under "unknown" and is
\* answered 200.
C6_UndecodableStateIsUnknown ==
    \A r \in DOMAIN req :
        (req[r].kind = "callback" /\ UndecodableState(req[r].in.rawState))
            => /\ req[r].pc # "rejected"
               /\ req[r].logged # {"state"}
               /\ req[r].userId = UNKNOWN
               /\ ReachedSave(req[r]) =>
                    /\ req[r].status = 200
                    /\ req[r].writes # <<>>
                    /\ \A i \in DOMAIN req[r].writes :
                          req[r].writes[i].userId = UNKNOWN

\* The state parameter of the redirect that start answers for user u.
StateOfStart(p, u) ==
    StartResponse([Idle EXCEPT !.kind = "start", !.provider = p,
                               !.in.user_id = {u}]).body.state

\* C7: a callback given back the state that start wrote for user u decodes
\* it to u, and when it carries a code and every provider call succeeds it
\* writes its record under user_id u.
C7_StateRoundTripPersistsUser ==
    \A r \in DOMAIN req : \A u \in Users :
        (/\ req[r].kind = "callback"
         /\ req[r].in.rawState = {StateOfStart(req[r].provider, u)})
            => /\ req[r].pc # "rejected"
               /\ req[r].userId = u
               /\ ReachedSave(req[r]) =>
                    /\ req[r].writes # <<>>
                    /\ \A i \in DOMAIN req[r].writes : req[r].writes[i].userId = u
                    /\ \E p \in {"facebook", req[r].provider} :
                          RowsOf(db, u, p) # {}

\* The decoding half of C7 alone: the state that start writes for a user
\* identifier decodes, at the callback, to that identifier.
RoundTripExact ==
    pure.step = "decoded" =>
        /\ ~pure.parsed.threw
        /\ pure.parsed.user_id = {pure.user_id}

\* C8: a start request is answered 400 exactly when its user_id is missing
\* or empty, and otherwise with a redirect to the provider's authorization
\* URL whose state parameter decodes to the user_id; either way no provider
\* call is made and the table is left as it was.
C8_StartAnswers ==
    \A r \in DOMAIN req :
        Answered(req[r], "start") =>
            /\ req[r].status = 400 <=> req[r].in.user_id \in {{}, {<<>>}}
            /\ req[r].status # 400 =>
                /\ req[r].status = 302
                /\ req[r].body.location = AuthorizationUrl(req[r].provider)
                /\ ParseState({QueryDecode(req[r].body.state)}) =
                      [threw |-> FALSE, user_id |-> req[r].in.user_id]
            /\ req[r].calls = <<>>
            /\ req[r].writes = <<>>
            /\ db = req[r].snap

\* A start request for a user identifier with characters that need
\* escaping was answered with a redirect.
C8_Witness ==
    \E r \in DOMAIN req :
        /\ Answered(req[r], "start")
        /\ req[r].in.user_id = {<<"\"", "%">>}
        /\ req[r].status = 302

\* The exchange chain of a Meta callback succeeded up to and including call.
MetaChainDone(q, last) ==
    /\ q.kind = "callback" /\ q.provider = "meta"
    /\ ReachedSave(q)
    /\ q.calls[Len(q.calls)] = last

\* C9: a Meta callback whose exchanges succeed and whose page list is empty
\* writes exactly one record: facebook, the long-lived token, the expiry of
\* the long-lived exchange, metadata noting that there are no pages; it
\* makes no page lookup.
C9_MetaZeroPages ==
    \A r \in DOMAIN req :
        MetaChainDone(req[r], "pages") =>
            /\ req[r].calls = <<"token", "long", "pages">>
            /\ Len(req[r].writes) = 1
            /\ req[r].writes[1].platform = "facebook"
            /\ req[r].writes[1].accessToken = req[r].loc.longToken
            /\ req[r].writes[1].expiresAt = req[r].loc.expiresAt
            /\ req[r].writes[1].meta = {[note |-> "no-pages"]}
            /\ RowsOf(db, req[r].userId, "facebook") # {}

\* C10: a Meta callback that was given a page writes a facebook record with
\* the first page's id and token, and an instagram record exactly when the
\* page has a connected Instagram account, keyed by that account's id, with
\* the same page token and the page id in its metadata.
C10_MetaPage ==
    \A r \in DOMAIN req :
        MetaChainDone(req[r], "page") =>
            LET q == req[r]
                page == The(q.loc.page)
                ig == q.loc.instagramUserId
            IN  /\ Len(q.writes) = IF ig = {} THEN 1 ELSE 2
                /\ q.writes[1].platform = "facebook"
                /\ q.writes[1].platformUserId = {page.id}
                /\ q.writes[1].accessToken = page.access_token
                /\ ig # {} =>
                    /\ q.writes[2].platform = "instagram"
                    /\ q.writes[2].platformUserId = ig
                    /\ q.writes[2].accessToken = page.access_token
                    /\ q.writes[2].meta = {[linked_page |-> page.id]}

\* A callback that has called saveAccount, with success or not.
CalledSave(q) == q.kind = "callback" /\ q.handed # <<>>

\* C11: for every provider, when the token exchange that completed at
\* instant T reported expires_in = D, every record the callback gives to
\* the store carries expires_at = T + D.
C11_ExpiryIsExchangePlusDuration ==
    \A r \in DOMAIN req :
        (CalledSave(req[r]) /\ req[r].loc.expires_in # {}) =>
            \A i \in DOMAIN req[r].handed :
                req[r].handed[i].expiresAt =
                    NumExpiry(The(req[r].loc.exchangedAt)
                                + The(req[r].loc.expires_in))

\* C12: for every provider, a callback whose exchanges succeed and whose
\* token response carries no expires_in persists its record, and the
\* expires_at of every row it persisted is absent.
C12_NoDurationNoExpiry ==
    \A r \in DOMAIN req :
        (ReachedSave(req[r]) /\ req[r].loc.expires_in = {}) =>
            /\ req[r].writes # <<>>
            /\ \A i \in DOMAIN req[r].writes :
                LET a == req[r].writes[i]
                IN  /\ RowsOf(db, a.userId, a.platform) # {}
                    /\ \A j \in RowsOf(db, a.userId, a.platform) :
                          db.rows[j].expires_at = NullExpiry

\* A failure was raised in the handler of q: the state did not decode, a
\* provider call failed, or a store write threw.
FailureRaised(q) == q.pc = "rejected" \/ q.logged # {}

\* C13: for every provider, a failure raised during a callback that carries
\* a code (state decoding, provider call or store write) is answered 500
\* with the handler's fixed text, whatever the detail of the error.
C13_FailuresAnswered500Generic ==
    \A r \in DOMAIN req :
        (/\ req[r].kind = "callback"
         /\ req[r].in.code # {}
         /\ FailureRaised(req[r]))
            => /\ req[r].pc = "done"
               /\ req[r].status = 500
               /\ req[r].body = [text |-> ErrorText(req[r].provider)]

\* C14: a youtube, x, pinterest or linkedin callback whose exchanges
\* succeed persists exactly one record, of its provider's platform; a Meta
\* callback persists 0, 1 or 2 records, of the platforms facebook and
\* instagram only.
C14_RecordCardinality ==
    \A r \in DOMAIN req :
        LET q == req[r]
        IN  /\ (q.kind = "callback" /\ q.provider = "meta") =>
                /\ Len(q.writes) \in {0, 1, 2}
                /\ \A i \in DOMAIN q.writes :
                      q.writes[i].platform \in {"facebook", "instagram"}
            /\ (ReachedSave(q) /\ q.provider \in SimpleProviders) =>
                /\ Len(q.writes) = 1
                /\ q.writes[1].platform = q.provider
                /\ Cardinality(RowsOf(db, q.userId, q.provider)) = 1

\* C15: no step of any start, callback or credentials request removes a
\* record: a (user_id, platform) pair that has a row before the step has a
\* row after it.
C15_NoRecordRemoved == [][Pairs(db) \subseteq Pairs(db')]_vars

\* A callback has called saveAccount and has been answered, and every pair
\* the table held when the callback began is still there.
C15_Witness ==
    \E r \in DOMAIN req :
        /\ CalledSave(req[r])
        /\ req[r].pc = "done"
        /\ Pairs(req[r].snap) \subseteq Pairs(db)

\* Every outbound provider call eventually returns or times out: the step
\* of a handler that waits for an answer is eventually taken.
ProviderAnswers(r) ==
    /\ WF_vars(MetaTokenReply(r))
    /\ WF_vars(MetaLongReply(r))
    /\ WF_vars(MetaPagesReply(r))
    /\ WF_vars(MetaPageInfoReply(r))
    /\ WF_vars(SimpleTokenReply(r))
    /\ WF_vars(SimpleMeReply(r))

FairSpec == Spec /\ \A r \in Reqs : ProviderAnswers(r)

\* C16: every callback request, whatever its provider, code and state, is
\* eventually answered, with a 200 or a 500.
C16_EveryCallbackAnswered ==
    \A r \in Reqs :
        (req[r].kind = "callback")
            ~> (req[r].pc = "done" /\ req[r].status \in {200, 500})

\* The row holds, field for field, the record a that was given to saveAccount.
RowIsRecord(row, a) ==
    /\ row.user_id = a.userId
    /\ row.platform = a.platform
    /\ row.platform_user_id = a.platformUserId
    /\ row.access_token = a.accessToken
    /\ row.refresh_token = a.refreshToken
    /\ MetaOfJson(row.meta_json) = a.meta
    /\ row.expires_at = BoundExpiry(a.expiresAt)

\* C17: when two callbacks that ran interleaved have both finished their
\* exchanges and given a record for the same (user_id, platform) to the
\* store, the table holds exactly one row for that pair and the row is,
\* field for field, the record of one of the two.
C17_ConcurrentWritesWhole ==
    \A r1, r2 \in DOMAIN req :
        (/\ r1 # r2
         /\ ReachedSave(req[r1]) /\ ReachedSave(req[r2])
         /\ req[r1].overlapped \/ req[r2].overlapped) =>
            \A k1 \in DOMAIN req[r1].handed, k2 \in DOMAIN req[r2].handed :
                LET a1 == req[r1].handed[k1]
                    a2 == req[r2].handed[k2]
                IN  (a1.userId = a2.userId /\ a1.platform = a2.platform) =>
                        \E i \in DOMAIN db.rows :
                            /\ RowsOf(db, a1.userId, a1.platform) = {i}
                            /\ \/ RowIsRecord(db.rows[i], a1)
                               \/ RowIsRecord(db.rows[i], a2)

\* The provider calls of a callback, in the order of the handler's code.
Chain(p) ==
    IF p = "meta" THEN <<"token", "long", "pages", "page">>
    ELSE <<"token", "me">>

IsPrefix(a, b) == Len(a) <= Len(b) /\ \A i \in DOMAIN a : a[i] = b[i]

\* A provider call of the callback failed.
ProviderFailed(q) == q.logged \cap ErrorDetails # {}

\* C18: the provider calls a callback has issued are an initial part of its
\* chain, each issued once and in order; a handler waits for the call it
\* issued last; after a failed call nothing is given to the store; and a
\* record is given to the store only when the whole chain has been issued
\* and has succeeded (for Meta the chain ends with the page list when the
\* list is empty, and with the page lookup otherwise).
C18_OrderedChainNoRetry ==
    \A r \in DOMAIN req :
        LET q == req[r]
        IN  q.kind = "callback" =>
                /\ IsPrefix(q.calls, Chain(q.provider))
                /\ q.pc \notin {"done", "rejected"} =>
                      q.calls # <<>> /\ q.pc = q.calls[Len(q.calls)]
                /\ ProviderFailed(q) => q.handed = <<>> /\ q.writes = <<>>
                /\ CalledSave(q) =>
                      /\ ~ProviderFailed(q)
                      /\ IF q.provider = "meta" /\ q.loc.page = {}
                         THEN q.calls = <<"token", "long", "pages">>
                         ELSE q.calls = Chain(q.provider)

\* A Meta callback has issued its four calls, each once, and then given
\* its facebook record to the store.
C18_Witness ==
    \E r \in DOMAIN req :
        /\ CalledSave(req[r])
        /\ req[r].provider = "meta"
        /\ req[r].calls = <<"token", "long", "pages", "page">>
        /\ req[r].loc.instagramUserId # {}

\* C19: a callback with a code and a state that decodes to a user u is
\* accepted whatever requests came before it (no start request need have
\* been made, and any number of callbacks may have been): it is not turned
\* away on its state, it goes on to the token exchange as user u, and when
\* its exchanges succeed it is answered 200 with its record persisted under
\* user_id u.
C19_StateNotBoundToSession ==
    \A r \in DOMAIN req :
        LET q == req[r]
            parsed == ParseState(q.in.state)
        IN  (/\ q.kind = "callback"
             /\ q.in.code # {}
             /\ ~parsed.threw /\ parsed.user_id \notin {{}, {<<>>}})
                => /\ q.pc # "rejected"
                   /\ q.calls # <<>> /\ q.calls[1] = "token"
                   /\ {q.userId} = parsed.user_id
                   /\ ReachedSave(q) =>
                        /\ q.status = 200
                        /\ q.writes # <<>>
                        /\ \A i \in DOMAIN q.writes :
                              /\ q.writes[i].userId = q.userId
                              /\ RowsOf(db, q.userId, q.writes[i].platform) # {}

C21_InstagramFollowsFacebook ==
    \A i, j \in DOMAIN db.rows :
        (/\ db.rows[i].platform = "facebook"
         /\ db.rows[j].platform = "instagram"
         /\ db.rows[i].user_id = db.rows[j].user_id)
            => /\ db.rows[j].access_token = db.rows[i].access_token
               /\ \E m \in MetaOfJson(db.rows[j].meta_json) :
                    /\ "linked_page" \in DOMAIN m
                    /\ {m.linked_page} = db.rows[i].platform_user_id

\* Slot r takes the step, as a request of the given kind.
Acts(r, kind) == req'[r] # req[r] /\ req'[r].kind = kind

\* C22: a step changes or creates a row only as part of a callback whose
\* state decoded to the row's user_id, so the rows of every other user stay
\* as they are; and a credentials request changes no row and answers only
\* with entries taken from rows of the user it names.
C22_UserIsolation ==
    [][/\ \A i \in DOMAIN db.rows :
            \/ i \in DOMAIN db'.rows /\ db'.rows[i] = db.rows[i]
            \/ \E r \in DOMAIN req :
                 Acts(r, "callback") /\ req'[r].userId = db.rows[i].user_id
       /\ \A i \in DOMAIN db'.rows \ DOMAIN db.rows :
            \E r \in DOMAIN req :
                Acts(r, "callback") /\ req'[r].userId = db'.rows[i].user_id
       /\ \A r \in DOMAIN req :
            Acts(r, "credentials") =>
                /\ db' = db
                /\ req'[r].status = 200 =>
                    \A p \in DOMAIN req'[r].body.tokens :
                        \E i \in DOMAIN db.rows :
                            /\ db.rows[i].user_id = req'[r].in.path
                            /\ db.rows[i].platform = p
                            /\ req'[r].body.tokens[p] = EntryOfRow(db.rows[i])
      ]_vars

\* A callback whose state decoded to the second user has called
\* saveAccount, and left the table as it found it.
C22_Witness ==
    \E r \in DOMAIN req :
        /\ CalledSave(req[r])
        /\ req[r].userId = <<"\"", "%">>
        /\ req[r].handed[1].userId = req[r].userId
        /\ db = req[r].snap

====
